---- MODULE Spec2Model ----
(***************************************************************************)
(* A model of the jwql data-access layer:                                  *)
(*   jwql/edb/engineering_database.py      (EdbMnemonic, get_mnemonic(s))  *)
(*   jwql/website/apps/jwql/data_containers.py                             *)
(*                                                                         *)
(* Every function of the code is one action.  An action records the call   *)
(* it models in `call`, what the call gave back (a return value or a       *)
(* raised exception) in `ret`, and the requests the call made to external  *)
(* collaborators (the EDB service, the MAST client) in `trace`.            *)
(*                                                                         *)
(* Python strings are sequences of one-character strings, so that          *)
(* split, slicing, formatting and sorting are computed, not assumed.       *)
(***************************************************************************)
EXTENDS Integers, Sequences, FiniteSets, TLC

VARIABLES
    authenticated,  \* astroquery.mast.Mast session: Mast.authenticated()
    call,           \* the last call: [name |-> ..., args |-> ...]
    ret,            \* its outcome: [kind |-> "return" | "raise", value |-> ...]
    trace,          \* the external requests the last call issued, in order
    files,          \* the directory trees under jwql_dir: for each tree, the
                    \* entries of each of its directories, in the order the
                    \* operating system lists them
    requests,       \* the mnemonic queries the web server is processing at
                    \* the same time: for each, how far it has got
    static          \* the download files of settings.BASE_DIR/static, as the
                    \* queries processed at the same time write them (a call
                    \* that runs alone records its write in `trace`)

vars == <<authenticated, call, ret, trace, files, requests, static>>

----------------------------------------------------------------------------
(* Bounds of the model *)

\* times are 0..MaxTime
MaxTime == 1
\* get_mnemonics is given at most MaxMnemonics identifiers
MaxMnemonics == 3
\* a proposal number is a string of one to five digits
MaxProposalDigits == 5

----------------------------------------------------------------------------
(* Python values *)

\* Python's None: a value no string (a sequence of one-character strings) equals
None == <<"NoneType">>

\* str(x): the text of a value that is a string or None
PyStr(x) == IF x = None THEN <<"N", "o", "n", "e">> ELSE x

Return(v) == [kind |-> "return", value |-> v]
Raise(e) == [kind |-> "raise", value |-> e]

\* The characters the model's strings use, in code-point order
Alphabet ==
    <<".", "/", "0", "1", "2", "3", "4", "5", "6", "7", "8", "9",
      "A", "B", "S", "Z", "_",
      "a", "b", "c", "d", "e", "f", "g", "h", "i", "j", "k", "l", "m",
      "n", "o", "p", "q", "r", "s", "t", "u", "v", "w", "x", "y", "z">>

\* ord(c), up to an order-preserving renumbering
Ord(c) == CHOOSE i \in 1..Len(Alphabet) : Alphabet[i] = c

\* s < t for Python strings that agree before position i: the first
\* character that differs decides by code point, a proper prefix is less
RECURSIVE StrLessFrom(_, _, _)
StrLessFrom(s, t, i) ==
    IF i > Len(t) THEN FALSE
    ELSE IF i > Len(s) THEN TRUE
    ELSE IF s[i] = t[i] THEN StrLessFrom(s, t, i + 1)
    ELSE Ord(s[i]) < Ord(t[i])

\* s < t for Python strings
StrLess(s, t) == StrLessFrom(s, t, 1)

\* s.startswith(p)
StartsWith(s, p) == Len(p) <= Len(s) /\ SubSeq(s, 1, Len(p)) = p

\* s[a:b] with 0 <= a <= b (Python's slice clips at the end of the string)
Slice(s, a, b) ==
    LET hi == IF b < Len(s) THEN b ELSE Len(s)
    IN  IF a >= hi THEN <<>> ELSE SubSeq(s, a + 1, hi)

\* sub in s
Contains(s, sub) ==
    \E i \in 0..(Len(s) - Len(sub)) : SubSeq(s, i + 1, i + Len(sub)) = sub

----------------------------------------------------------------------------
(* jwql/edb/engineering_database.py *)

Times == 0..MaxTime

\* Mnemonic identifiers
SA_Z == <<"S", "A", "_", "Z">>
SA_B == <<"S", "A", "_", "B">>
Mnemonics == {SA_Z, SA_B}

\* config.json's mast_token
MAST_TOKEN == <<"c", "f", "g">>

\* The engineering database: the times at which each mnemonic has a record.
\* The records start before and end after the times a query may name; SA_Z is
\* sampled at every time, SA_B at the even times only.
EdbRecordTimes(m) ==
    IF m = SA_Z THEN (-1)..(MaxTime + 1)
    ELSE {t \in (-1)..(MaxTime + 1) : t % 2 = 0}

\* The rows t1 < t2 < ... of a set of times, as a table with the columns MJD
\* and euvalue
RECURSIVE TableOf(_, _)
TableOf(m, ts) ==
    IF ts = {} THEN <<>>
    ELSE LET t == CHOOSE x \in ts : \A y \in ts : x <= y
         IN  <<[MJD |-> t, euvalue |-> t + Len(m)]>> \o TableOf(m, ts \ {t})

\* edb_interface.query_single_mnemonic: the service answers with the records
\* of the mnemonic between the two times, and the mnemonic's meta data and info
query_single_mnemonic(mnemonic_identifier, start_time, end_time, token) ==
    [data |-> TableOf(mnemonic_identifier,
                      {t \in EdbRecordTimes(mnemonic_identifier) :
                          start_time <= t /\ t <= end_time}),
     meta |-> [TlmMnemonic |-> mnemonic_identifier],
     info |-> [unit |-> <<"V">>]]

\* the request a query_single_mnemonic call puts on the wire
QueryRequest(mnemonic_identifier, start_time, end_time, token) ==
    [fn |-> "query_single_mnemonic", mnemonic_identifier |-> mnemonic_identifier,
     start_time |-> start_time, end_time |-> end_time, token |-> token]

\* EdbMnemonic.__init__ with the two times stored in each other's attribute
EdbMnemonic_SwappedTimes(mnemonic_identifier, start_time, end_time, data, meta, info) ==
    [mnemonic_identifier |-> mnemonic_identifier,
     start_time |-> end_time,
     end_time |-> start_time,
     data |-> data,
     meta |-> meta,
     info |-> info]

\* EdbMnemonic.__init__
EdbMnemonic(mnemonic_identifier, start_time, end_time, data, meta, info) ==
    [mnemonic_identifier |-> mnemonic_identifier,
     start_time |-> start_time,
     end_time |-> end_time,
     data |-> data,
     meta |-> meta,
     info |-> info]

\* get_mnemonic, when the query answers: the instance it returns
GetMnemonicValue(mnemonic_identifier, start_time, end_time) ==
    LET q == query_single_mnemonic(mnemonic_identifier, start_time, end_time,
                                   MAST_TOKEN)
    IN  EdbMnemonic(mnemonic_identifier, start_time, end_time,
                    q.data, q.meta, q.info)

\* get_mnemonic: one query; its failure is the caller's
get_mnemonic ==
    \E m \in Mnemonics, s \in Times, e \in Times, fails \in BOOLEAN :
        /\ call' = [name |-> "get_mnemonic",
                    args |-> [mnemonic_identifier |-> m, start_time |-> s,
                              end_time |-> e]]
        /\ trace' = <<QueryRequest(m, s, e, MAST_TOKEN)>>
        /\ ret' = IF fails THEN Raise("QueryError")
                  ELSE Return(GetMnemonicValue(m, s, e))
        /\ UNCHANGED <<authenticated, files, requests, static>>

\* a dictionary that moves a key set again to the end
OrderedDictSet_MoveToEnd(d, k, v) ==
    [keys |-> Append(SelectSeq(d.keys, LAMBDA x : x # k), k),
     items |-> [x \in DOMAIN d.items \cup {k} |->
                    IF x = k THEN v ELSE d.items[x]]]

\* OrderedDict.__setitem__: a new key goes last, a known key keeps its place
OrderedDictSet(d, k, v) ==
    [keys |-> IF \E i \in 1..Len(d.keys) : d.keys[i] = k
              THEN d.keys ELSE Append(d.keys, k),
     items |-> [x \in DOMAIN d.items \cup {k} |->
                    IF x = k THEN v ELSE d.items[x]]]

EmptyOrderedDict == [keys |-> <<>>, items |-> <<>>]

\* the loop of get_mnemonics over mnemonics[1..n], no query failing
RECURSIVE MnemonicDictAfter(_, _, _, _)
MnemonicDictAfter(mnemonics, n, start_time, end_time) ==
    IF n = 0 THEN EmptyOrderedDict
    ELSE OrderedDictSet(MnemonicDictAfter(mnemonics, n - 1, start_time, end_time),
                        mnemonics[n],
                        GetMnemonicValue(mnemonics[n], start_time, end_time))

\* the requests of a loop that answers a repeated identifier from a cache
MnemonicRequests_Cached(mnemonics, n, start_time, end_time) ==
    LET F[i \in 0..n] ==
            IF i = 0 THEN <<>>
            ELSE IF \E j \in 1..(i - 1) : mnemonics[j] = mnemonics[i]
                 THEN F[i - 1]
                 ELSE Append(F[i - 1], QueryRequest(mnemonics[i], start_time,
                                                    end_time, MAST_TOKEN))
    IN  F[n]

\* the requests of that loop over mnemonics[1..n]
MnemonicRequests(mnemonics, n, start_time, end_time) ==
    [i \in 1..n |-> QueryRequest(mnemonics[i], start_time, end_time, MAST_TOKEN)]

\* a type check that lets a tuple through
IsListOrArray_OrTuple(mnemonics) == mnemonics.type \in {"list", "ndarray", "tuple"}

\* isinstance(mnemonics, (list, np.ndarray))
IsListOrArray(mnemonics) == mnemonics.type \in {"list", "ndarray"}

\* The arguments get_mnemonics is called with: a list or array of up to
\* MaxMnemonics identifiers, or something else (a single string, a tuple)
MnemonicSeqs ==
    UNION {[1..n -> Mnemonics] : n \in 0..MaxMnemonics}
MnemonicsArgs ==
    [type : {"list", "ndarray"}, items : MnemonicSeqs]
        \cup [type : {"str"}, items : Mnemonics]
        \cup {[type |-> "tuple", items |-> <<SA_Z, SA_B>>]}

\* get_mnemonics: failAt is the first request the service fails (0: none)
get_mnemonics ==
    \E mnemonics \in MnemonicsArgs, s \in Times, e \in Times :
      \E failAt \in 0..(IF IsListOrArray(mnemonics) THEN Len(mnemonics.items) ELSE 0) :
        /\ call' = [name |-> "get_mnemonics",
                    args |-> [mnemonics |-> mnemonics, start_time |-> s,
                              end_time |-> e]]
        /\ IF ~IsListOrArray(mnemonics)
           THEN /\ trace' = <<>>
                /\ ret' = Raise("RuntimeError")
           ELSE IF failAt > 0
           THEN /\ trace' = MnemonicRequests(mnemonics.items, failAt, s, e)
                /\ ret' = Raise("QueryError")
           ELSE /\ trace' = MnemonicRequests(mnemonics.items,
                                             Len(mnemonics.items), s, e)
                /\ ret' = Return(MnemonicDictAfter(mnemonics.items,
                                                   Len(mnemonics.items), s, e))
        /\ UNCHANGED <<authenticated, files, requests, static>>

----------------------------------------------------------------------------
(* jwql/website/apps/jwql/data_containers.py: the EDB page *)

\* The access tokens a request may carry
TOKEN_1 == <<"t", "k", "1">>
TOKEN_2 == <<"t", "k", "2">>
Tokens == {TOKEN_1, TOKEN_2}

\* credentials.get_mast_token(request): the request's token, or None
get_mast_token(request) == request.token

\* What the MAST service may answer to a login: it accepts the token, it
\* rejects it (the client stays anonymous), or the request fails
LoginAnswers == {"accepted", "rejected", "error"}

\* Mast.login(token=...): Mast.authenticated() afterwards
MastLogin(token, answer) == answer = "accepted"

\* log_into_mast with no test of Mast.authenticated() on entry
LogIntoMast_AlwaysLogin(auth, request, answer) ==
    LET access_token == PyStr(get_mast_token(request))
        read == [fn |-> "get_mast_token"]
        login == [fn |-> "Mast.login", token |-> access_token]
    IN  IF access_token # PyStr(None)
        THEN IF answer = "error"
             THEN [result |-> Raise("LoginError"), authenticated |-> FALSE,
                   trace |-> <<read, login>>]
             ELSE [result |-> Return(MastLogin(access_token, answer)),
                   authenticated |-> MastLogin(access_token, answer),
                   trace |-> <<read, login>>]
        ELSE [result |-> Return(FALSE), authenticated |-> auth,
              trace |-> <<read>>]

\* log_into_mast(request), entered with Mast.authenticated() = auth: what it
\* gives back, Mast.authenticated() afterwards, and the calls it made
LogIntoMast(auth, request, answer) ==
    IF auth
    THEN [result |-> Return(TRUE), authenticated |-> auth, trace |-> <<>>]
    ELSE LET access_token == PyStr(get_mast_token(request))
             read == [fn |-> "get_mast_token"]
             login == [fn |-> "Mast.login", token |-> access_token]
         IN  IF access_token # PyStr(None)
             THEN IF answer = "error"
                  THEN [result |-> Raise("LoginError"), authenticated |-> FALSE,
                        trace |-> <<read, login>>]
                  ELSE [result |-> Return(MastLogin(access_token, answer)),
                        authenticated |-> MastLogin(access_token, answer),
                        trace |-> <<read, login>>]
             ELSE [result |-> Return(FALSE), authenticated |-> auth,
                   trace |-> <<read>>]

\* The form data of a request: whether the form it fills validates
\* (forms.py's is_valid()), the 'search' field, the two time fields (as the
\* times Time(..., format='iso') reads from them) and the exploration fields
NoFieldValues == [f \in {"description", "subsystem", "tlm_mnemonic"} |-> <<>>]
NoForm ==
    [valid |-> FALSE, search |-> None, start_time |-> 0, end_time |-> 0,
     values |-> NoFieldValues]

\* A request that carries no form data
PlainRequests ==
    [method : {"GET", "POST"}, POST : {{}}, token : Tokens \cup {None},
     form : {NoForm}]

log_into_mast ==
    \E request \in PlainRequests, answer \in LoginAnswers :
        LET r == LogIntoMast(authenticated, request, answer)
        IN  /\ call' = [name |-> "log_into_mast",
                        args |-> [request |-> request],
                        entry |-> [authenticated |-> authenticated]]
            /\ ret' = r.result
            /\ authenticated' = r.authenticated
            /\ trace' = r.trace
            /\ UNCHANGED <<files, requests, static>>

\* str.lower() of one character
Lower(c) ==
    CASE c = "A" -> "a" [] c = "B" -> "b" [] c = "S" -> "s" [] c = "Z" -> "z"
      [] OTHER -> c

LowerStr(s) == [i \in 1..Len(s) |-> Lower(s[i])]

\* re.search(pattern, item) without re.IGNORECASE
ReSearch_CaseSensitive(pattern, item) == Contains(item, pattern)

\* re.search(pattern, item, re.IGNORECASE) is not None, for a pattern of
\* literal characters
ReSearch(pattern, item) == Contains(LowerStr(item), LowerStr(pattern))

\* jwedb's mnemonic_inventory(): the table of all mnemonics
Inventory ==
    <<[tlmMnemonic |-> SA_Z, subsystem |-> <<"S", "A">>,
       description |-> <<"a", "b">>],
      [tlmMnemonic |-> SA_B, subsystem |-> <<"S", "A">>,
       description |-> <<"B", "a">>],
      [tlmMnemonic |-> <<"Z", "_", "a">>, subsystem |-> <<"Z", "s">>,
       description |-> <<"b", "b">>],
      [tlmMnemonic |-> <<"B", "_", "z">>, subsystem |-> <<"z", "S">>,
       description |-> <<"A">>]>>

\* MnemonicExplorationForm: its fields, in the order of form.fields, and the
\* label of each, which names a column of the inventory
ExplorationFields == <<"description", "subsystem", "tlm_mnemonic">>
FieldLabel(field) ==
    CASE field = "description" -> "description"
      [] field = "subsystem" -> "subsystem"
      [] field = "tlm_mnemonic" -> "tlmMnemonic"

\* What a user may type into each field
FieldValues(field) ==
    CASE field = "description" -> {<<>>, <<"a">>, <<"B">>}
      [] field = "subsystem" -> {<<>>, <<"s", "a">>, <<"Z">>}
      [] field = "tlm_mnemonic" -> {<<>>, <<"z">>, <<"A", "_">>}

\* one pass of the loop that filters from the whole inventory every time
FilterStep_FromInventory(table, column_name, field_value) ==
    SelectSeq(Inventory, LAMBDA row : ReSearch(field_value, row[column_name]))

\* one pass of the loop over the fields, for a filled field: the rows of the
\* table whose column matches, by index, in the table's order
FilterStep(table, column_name, field_value) ==
    SelectSeq(table, LAMBDA row : ReSearch(field_value, row[column_name]))

\* the loop over the fields fields[1..n] of a form with the given values
RECURSIVE FilterFields(_, _, _, _)
FilterFields(fields, n, values, table) ==
    IF n = 0 THEN table
    ELSE LET sofar == FilterFields(fields, n - 1, values, table)
             field_value == values[fields[n]]
         IN  IF field_value # <<>>
             THEN FilterStep(sofar, FieldLabel(fields[n]), field_value)
             ELSE sofar

\* edb_interface.query_mnemonic_info: the description of a mnemonic
query_mnemonic_info(mnemonic_identifier, token) ==
    [tlmMnemonic |-> mnemonic_identifier, unit |-> <<"V">>]

\* get_mnemonic_info
get_mnemonic_info(mnemonic_identifier) ==
    query_mnemonic_info(mnemonic_identifier, MAST_TOKEN)

\* EdbMnemonic.bokeh_plot: [div, script] of the figure of the data
bokeh_plot(mnemonic) ==
    [type |-> "list", title |-> mnemonic.mnemonic_identifier,
     points |-> Len(mnemonic.data), unit |-> mnemonic.info.unit]

\* A form that is created from the request's data, and one that is not
BoundForm(class, prefix, logged_in) ==
    [unbound |-> FALSE, class |-> class, prefix |-> prefix, is_bound |-> TRUE,
     logged_in |-> logged_in]
BlankForm(class, prefix) ==
    [unbound |-> FALSE, class |-> class, prefix |-> prefix, is_bound |-> FALSE,
     logged_in |-> FALSE]

\* A local variable no statement has assigned
UnboundLocal == [unbound |-> TRUE]

NoneValue == [type |-> "NoneType"]
EmptyDict == [type |-> "dict", items |-> <<>>]

\* The local variables of get_edb_components after lines 227-230
InitialLocals ==
    [mnemonic_name_search_result |-> EmptyDict,
     mnemonic_query_result |-> EmptyDict,
     mnemonic_query_result_plot |-> NoneValue,
     mnemonic_exploration_result |-> NoneValue,
     mnemonic_name_search_form |-> UnboundLocal,
     mnemonic_query_form |-> UnboundLocal,
     mnemonic_exploration_form |-> UnboundLocal]

\* Lines 354-362: the dictionary of the seven components; reading a local
\* variable that was never assigned raises UnboundLocalError
EdbComponentsDict(locals) ==
    IF \/ locals.mnemonic_query_form.unbound
       \/ locals.mnemonic_name_search_form.unbound
       \/ locals.mnemonic_exploration_form.unbound
    THEN Raise("UnboundLocalError")
    ELSE Return([mnemonic_query_form |-> locals.mnemonic_query_form,
                 mnemonic_query_result |-> locals.mnemonic_query_result,
                 mnemonic_query_result_plot |-> locals.mnemonic_query_result_plot,
                 mnemonic_name_search_form |-> locals.mnemonic_name_search_form,
                 mnemonic_name_search_result |-> locals.mnemonic_name_search_result,
                 mnemonic_exploration_form |-> locals.mnemonic_exploration_form,
                 mnemonic_exploration_result |-> locals.mnemonic_exploration_result])

\* Lines 235-249: the name search
NameSearchBranch(auth, request, answer, fails) ==
    LET login == LogIntoMast(auth, request, answer)
        form == request.form
        queried == form.valid /\ form.search # None
        locals == [InitialLocals EXCEPT
            !.mnemonic_name_search_form =
                BoundForm("MnemonicSearchForm", "mnemonic_name_search",
                          login.result.value),
            !.mnemonic_name_search_result =
                IF queried
                THEN [type |-> "dict", items |-> get_mnemonic_info(form.search)]
                ELSE EmptyDict,
            !.mnemonic_query_form =
                BlankForm("MnemonicQueryForm", "mnemonic_query"),
            !.mnemonic_exploration_form =
                BlankForm("MnemonicExplorationForm", "mnemonic_exploration")]
        info == [fn |-> "query_mnemonic_info",
                 mnemonic_identifier |-> form.search, token |-> MAST_TOKEN]
    IN  IF login.result.kind = "raise" THEN login
        ELSE IF queried /\ fails
        THEN [result |-> Raise("QueryError"), authenticated |-> login.authenticated,
              trace |-> Append(login.trace, info)]
        ELSE [result |-> EdbComponentsDict(locals),
              authenticated |-> login.authenticated,
              trace |-> IF queried THEN Append(login.trace, info) ELSE login.trace]

\* Lines 272-276: the one file every query result is saved to
QueryDownloadFile == "mnemonic_query_result_table.csv"
ExplorationDownloadFile == "mnemonic_exploration_result_table.csv"

\* Lines 251-295: the mnemonic query
QueryBranch(auth, request, answer, fails) ==
    LET login == LogIntoMast(auth, request, answer)
        form == request.form
        queried == form.valid /\ form.search # None
        mnemonic_query_result ==
            GetMnemonicValue(form.search, form.start_time, form.end_time)
        query == QueryRequest(form.search, form.start_time, form.end_time,
                              MAST_TOKEN)
        write == [fn |-> "Table.write",
                  path |-> <<"static", QueryDownloadFile>>,
                  rows |-> mnemonic_query_result.data,
                  comments |-> [query |-> form.search,
                                info |-> mnemonic_query_result.info,
                                start_time |-> form.start_time,
                                end_time |-> form.end_time,
                                n_rows |-> Len(mnemonic_query_result.data)]]
        locals == [InitialLocals EXCEPT
            !.mnemonic_query_form =
                BoundForm("MnemonicQueryForm", "mnemonic_query",
                          login.result.value),
            !.mnemonic_query_result =
                IF queried
                THEN [type |-> "EdbMnemonic", object |-> mnemonic_query_result,
                      file_for_download |-> QueryDownloadFile]
                ELSE EmptyDict,
            !.mnemonic_query_result_plot =
                IF queried THEN bokeh_plot(mnemonic_query_result) ELSE NoneValue,
            !.mnemonic_name_search_form =
                BlankForm("MnemonicSearchForm", "mnemonic_name_search"),
            !.mnemonic_exploration_form =
                BlankForm("MnemonicExplorationForm", "mnemonic_exploration")]
    IN  IF login.result.kind = "raise" THEN login
        ELSE IF queried /\ fails
        THEN [result |-> Raise("QueryError"), authenticated |-> login.authenticated,
              trace |-> Append(login.trace, query)]
        ELSE [result |-> EdbComponentsDict(locals),
              authenticated |-> login.authenticated,
              trace |-> IF queried THEN login.trace \o <<query, write>>
                        ELSE login.trace]

\* Lines 297-347: the exploration of the inventory
ExplorationBranch(auth, request) ==
    LET form == request.form
        filtered == FilterFields(ExplorationFields, Len(ExplorationFields),
                                 form.values, Inventory)
        write == [fn |-> "Table.write",
                  path |-> <<"static", ExplorationDownloadFile>>,
                  rows |-> filtered]
        locals == [InitialLocals EXCEPT
            !.mnemonic_exploration_form =
                [unbound |-> FALSE, class |-> "MnemonicExplorationForm",
                 prefix |-> "mnemonic_exploration", is_bound |-> TRUE,
                 logged_in |-> FALSE],
            !.mnemonic_exploration_result =
                IF ~form.valid THEN NoneValue
                ELSE IF Len(filtered) = 0
                THEN [type |-> "str", value |-> <<"e", "m", "p", "t", "y">>]
                ELSE [type |-> "Table", rows |-> filtered,
                      n_rows |-> Len(filtered),
                      meta |-> [n_total |-> Len(Inventory)],
                      file_for_download |-> ExplorationDownloadFile],
            !.mnemonic_name_search_form =
                BlankForm("MnemonicSearchForm", "mnemonic_name_search"),
            !.mnemonic_query_form =
                BlankForm("MnemonicQueryForm", "mnemonic_query")]
    IN  [result |-> EdbComponentsDict(locals), authenticated |-> auth,
         trace |-> IF form.valid
                   THEN <<[fn |-> "mnemonic_inventory"], write>> ELSE <<>>]

\* Lines 349-352: not a POST
GetBranch(auth) ==
    LET locals == [InitialLocals EXCEPT
            !.mnemonic_name_search_form =
                BlankForm("MnemonicSearchForm", "mnemonic_name_search"),
            !.mnemonic_query_form =
                BlankForm("MnemonicQueryForm", "mnemonic_query"),
            !.mnemonic_exploration_form =
                BlankForm("MnemonicExplorationForm", "mnemonic_exploration")]
    IN  [result |-> EdbComponentsDict(locals), authenticated |-> auth,
         trace |-> <<>>]

\* get_edb_components(request), entered with Mast.authenticated() = auth.
\* answer is the MAST service's answer to a login, fails whether the EDB
\* service fails the request made to it.
EdbComponents(auth, request, answer, fails) ==
    IF request.method = "POST"
    THEN IF "mnemonic_name_search" \in request.POST
         THEN NameSearchBranch(auth, request, answer, fails)
         ELSE IF "mnemonic_query" \in request.POST
         THEN QueryBranch(auth, request, answer, fails)
         ELSE IF "mnemonic_exploration" \in request.POST
         THEN ExplorationBranch(auth, request)
         ELSE [result |-> EdbComponentsDict(InitialLocals),
               authenticated |-> auth, trace |-> <<>>]
    ELSE GetBranch(auth)

\* The requests the EDB page receives: a GET, or a POST with any of the three
\* submit keys and the data of the form that key belongs to
SearchForms ==
    [valid : BOOLEAN, search : Mnemonics \cup {None}, start_time : {0},
     end_time : {0}, values : {NoFieldValues}]
QueryForms ==
    [valid : BOOLEAN, search : Mnemonics \cup {None}, start_time : Times,
     end_time : Times, values : {NoFieldValues}]
ExplorationForms ==
    [valid : BOOLEAN, search : {None}, start_time : {0}, end_time : {0},
     values : {v \in [DOMAIN NoFieldValues ->
                          UNION {FieldValues(f) : f \in DOMAIN NoFieldValues}] :
                  \A f \in DOMAIN v : v[f] \in FieldValues(f)}]
SubmitKeys == {"mnemonic_name_search", "mnemonic_query", "mnemonic_exploration"}
EdbRequests ==
    PlainRequests
    \cup [method : {"POST"}, POST : {k \in SUBSET SubmitKeys : "mnemonic_name_search" \in k},
          token : {None, TOKEN_1}, form : SearchForms]
    \cup [method : {"POST"}, POST : {{"mnemonic_query"}, {"mnemonic_query", "mnemonic_exploration"}},
          token : {None, TOKEN_1}, form : QueryForms]
    \cup [method : {"POST"}, POST : {{"mnemonic_exploration"}},
          token : {None}, form : ExplorationForms]

get_edb_components ==
    \E request \in EdbRequests, answer \in LoginAnswers, fails \in BOOLEAN :
        LET r == EdbComponents(authenticated, request, answer, fails)
        IN  /\ call' = [name |-> "get_edb_components",
                        args |-> [request |-> request],
                        entry |-> [authenticated |-> authenticated]]
            /\ ret' = r.result
            /\ authenticated' = r.authenticated
            /\ trace' = r.trace
            /\ UNCHANGED <<files, requests, static>>

----------------------------------------------------------------------------
(* get_edb_components, lines 251-291 and 354-362: mnemonic queries the web  *)
(* server processes at the same time, each in steps                         *)

\* The queries in flight
RequestIds == {1, 2}

NoRequests == [r \in RequestIds |-> [pc |-> "idle"]]
NoDownloads == <<>>

\* The forms of the queries: valid, with a mnemonic
ConcurrentForms ==
    [search : Mnemonics, start_time : Times, end_time : Times]

\* Lines 265-288: the table of the query, with the comments saved with it
ResultTable(form) ==
    [rows |-> GetMnemonicValue(form.search, form.start_time,
                               form.end_time).data,
     comments |->
         [query |-> form.search,
          info |-> GetMnemonicValue(form.search, form.start_time,
                                    form.end_time).info,
          start_time |-> form.start_time,
          end_time |-> form.end_time,
          n_rows |-> Len(GetMnemonicValue(form.search, form.start_time,
                                          form.end_time).data)]]

\* result_table.write(path) without overwrite: a file that is there stays
WriteTable_KeepExisting(downloads, file, table) ==
    IF file \in DOMAIN downloads THEN downloads
    ELSE (file :> table) @@ downloads

\* Lines 289-290: result_table.write(path_for_download, overwrite=True)
WriteTable(downloads, file, table) == (file :> table) @@ downloads

\* Lines 251-269: the query is received and answered by the EDB
query_mnemonic(r) ==
    /\ requests[r].pc = "idle"
    /\ \E form \in ConcurrentForms :
          requests' = [requests EXCEPT ![r] =
                          [pc |-> "queried", form |-> form,
                           result_table |-> ResultTable(form),
                           alone |-> FALSE]]
    /\ UNCHANGED <<authenticated, call, ret, trace, files, static>>

\* Lines 272-290: the table is saved to the one file of all query results.
\* `alone` records that no other query has written the file since
write_table(r) ==
    /\ requests[r].pc = "queried"
    /\ static' = WriteTable(static, QueryDownloadFile,
                            requests[r].result_table)
    /\ requests' =
          [q \in RequestIds |->
              IF q = r
              THEN [pc |-> "written", form |-> requests[r].form,
                    result_table |-> requests[r].result_table,
                    alone |-> TRUE]
              ELSE IF requests[q].pc = "idle" THEN requests[q]
              ELSE [requests[q] EXCEPT !.alone = FALSE]]
    /\ UNCHANGED <<authenticated, call, ret, trace, files>>

\* Lines 291 and 354-362: the response names the file for download
return_components(r) ==
    /\ requests[r].pc = "written"
    /\ requests' = [requests EXCEPT ![r] =
                       [pc |-> "returned", form |-> requests[r].form,
                        result_table |-> requests[r].result_table,
                        alone |-> requests[r].alone,
                        file_for_download |-> QueryDownloadFile]]
    /\ UNCHANGED <<authenticated, call, ret, trace, files, static>>

----------------------------------------------------------------------------
(* jwql/website/apps/jwql/data_containers.py: the file lookups *)

\* get_config()['jwql_dir']
JWQL_DIR == <<"/", "d">>

\* os.path.join(a, b) for a relative b
PathJoin(a, b) == a \o <<"/">> \o b

FILESYSTEM_DIR ==
    PathJoin(JWQL_DIR, <<"f", "i", "l", "e", "s", "y", "s", "t", "e", "m">>)
PREVIEW_IMAGE_FILESYSTEM ==
    PathJoin(JWQL_DIR,
             <<"p", "r", "e", "v", "i", "e", "w", "_", "i", "m", "a", "g",
               "e", "s">>)
THUMBNAIL_FILESYSTEM ==
    PathJoin(JWQL_DIR, <<"t", "h", "u", "m", "b", "n", "a", "i", "l", "s">>)

\* The proposal directories of the trees
JW00886 == <<"j", "w", "0", "0", "8", "8", "6">>
JW86600 == <<"j", "w", "8", "6", "6", "0", "0">>

\* The files of the trees, named as the JWST pipeline names them
\* jw00886001001_02101_00001_nrca1_uncal.fits
NRCA1_UNCAL ==
    <<"j", "w", "0", "0", "8", "8", "6", "0", "0", "1", "0", "0", "1", "_",
      "0", "2", "1", "0", "1", "_", "0", "0", "0", "0", "1", "_", "n", "r",
      "c", "a", "1", "_", "u", "n", "c", "a", "l", ".", "f", "i", "t", "s">>
\* jw00886001001_02101_00001_nrca1_rate.fits
NRCA1_RATE ==
    <<"j", "w", "0", "0", "8", "8", "6", "0", "0", "1", "0", "0", "1", "_",
      "0", "2", "1", "0", "1", "_", "0", "0", "0", "0", "1", "_", "n", "r",
      "c", "a", "1", "_", "r", "a", "t", "e", ".", "f", "i", "t", "s">>
\* jw00886001001_02101_00002_nrca1_rate.fits
NRCA1_RATE_2 ==
    <<"j", "w", "0", "0", "8", "8", "6", "0", "0", "1", "0", "0", "1", "_",
      "0", "2", "1", "0", "1", "_", "0", "0", "0", "0", "2", "_", "n", "r",
      "c", "a", "1", "_", "r", "a", "t", "e", ".", "f", "i", "t", "s">>
\* jw00886002001_02101_00001_mirimage_rate.fits
MIRIMAGE_RATE ==
    <<"j", "w", "0", "0", "8", "8", "6", "0", "0", "2", "0", "0", "1", "_",
      "0", "2", "1", "0", "1", "_", "0", "0", "0", "0", "1", "_", "m", "i",
      "r", "i", "m", "a", "g", "e", "_", "r", "a", "t", "e", ".", "f", "i",
      "t", "s">>
\* jw86600008001_02101_00007_guider2_rate.fits
GUIDER2_RATE ==
    <<"j", "w", "8", "6", "6", "0", "0", "0", "0", "8", "0", "0", "1", "_",
      "0", "2", "1", "0", "1", "_", "0", "0", "0", "0", "7", "_", "g", "u",
      "i", "d", "e", "r", "2", "_", "r", "a", "t", "e", ".", "f", "i", "t",
      "s">>
\* jw86600008001_02101_00007_guider2_uncal.fits
GUIDER2_UNCAL ==
    <<"j", "w", "8", "6", "6", "0", "0", "0", "0", "8", "0", "0", "1", "_",
      "0", "2", "1", "0", "1", "_", "0", "0", "0", "0", "7", "_", "g", "u",
      "i", "d", "e", "r", "2", "_", "u", "n", "c", "a", "l", ".", "f", "i",
      "t", "s">>
\* jw00886001001_02101_00001_nrca1_rate_integ0.jpg
NRCA1_RATE_JPG ==
    <<"j", "w", "0", "0", "8", "8", "6", "0", "0", "1", "0", "0", "1", "_",
      "0", "2", "1", "0", "1", "_", "0", "0", "0", "0", "1", "_", "n", "r",
      "c", "a", "1", "_", "r", "a", "t", "e", "_", "i", "n", "t", "e", "g",
      "0", ".", "j", "p", "g">>
\* jw00886001001_02101_00001_nrca1_uncal_integ0.jpg
NRCA1_UNCAL_JPG ==
    <<"j", "w", "0", "0", "8", "8", "6", "0", "0", "1", "0", "0", "1", "_",
      "0", "2", "1", "0", "1", "_", "0", "0", "0", "0", "1", "_", "n", "r",
      "c", "a", "1", "_", "u", "n", "c", "a", "l", "_", "i", "n", "t", "e",
      "g", "0", ".", "j", "p", "g">>
\* jw86600008001_02101_00007_guider2_rate_integ0.jpg
GUIDER2_RATE_JPG ==
    <<"j", "w", "8", "6", "6", "0", "0", "0", "0", "8", "0", "0", "1", "_",
      "0", "2", "1", "0", "1", "_", "0", "0", "0", "0", "7", "_", "g", "u",
      "i", "d", "e", "r", "2", "_", "r", "a", "t", "e", "_", "i", "n", "t",
      "e", "g", "0", ".", "j", "p", "g">>
\* jw00886001001_02101_00001_nrca1_rate_integ0.thumb
NRCA1_RATE_THUMB ==
    <<"j", "w", "0", "0", "8", "8", "6", "0", "0", "1", "0", "0", "1", "_",
      "0", "2", "1", "0", "1", "_", "0", "0", "0", "0", "1", "_", "n", "r",
      "c", "a", "1", "_", "r", "a", "t", "e", "_", "i", "n", "t", "e", "g",
      "0", ".", "t", "h", "u", "m", "b">>
\* jw00886002001_02101_00001_mirimage_rate_integ0.thumb
MIRIMAGE_RATE_THUMB ==
    <<"j", "w", "0", "0", "8", "8", "6", "0", "0", "2", "0", "0", "1", "_",
      "0", "2", "1", "0", "1", "_", "0", "0", "0", "0", "1", "_", "m", "i",
      "r", "i", "m", "a", "g", "e", "_", "r", "a", "t", "e", "_", "i", "n",
      "t", "e", "g", "0", ".", "t", "h", "u", "m", "b">>
\* jw86600008001_02101_00007_guider2_rate_integ0.thumb
GUIDER2_RATE_THUMB ==
    <<"j", "w", "8", "6", "6", "0", "0", "0", "0", "8", "0", "0", "1", "_",
      "0", "2", "1", "0", "1", "_", "0", "0", "0", "0", "7", "_", "g", "u",
      "i", "d", "e", "r", "2", "_", "r", "a", "t", "e", "_", "i", "n", "t",
      "e", "g", "0", ".", "t", "h", "u", "m", "b">>

\* jw00886003001_0x101_00001_nrca2_rate.fits: the visit group is not two
\* digits, which the naming convention requires
NONCOMPLIANT_RATE ==
    <<"j", "w", "0", "0", "8", "8", "6", "0", "0", "3", "0", "0", "1", "_",
      "0", "x", "1", "0", "1", "_", "0", "0", "0", "0", "1", "_", "n", "r",
      "c", "a", "2", "_", "r", "a", "t", "e", ".", "f", "i", "t", "s">>

\* jw86600009001_02101_00001_guider1_cal.fits
GUIDER1_CAL ==
    <<"j", "w", "8", "6", "6", "0", "0", "0", "0", "9", "0", "0", "1", "_",
      "0", "2", "1", "0", "1", "_", "0", "0", "0", "0", "1", "_", "g", "u",
      "i", "d", "e", "r", "1", "_", "c", "a", "l", ".", "f", "i", "t", "s">>

\* A directory of the filesystem tree that is not a proposal directory
MIRROR == <<"m", "i", "r", "r", "o", "r">>

\* A tree: its directories and the entries of each, both in the order the
\* operating system lists them
Tree(dirs, entries) == [dirs |-> dirs, entries |-> entries]

\* The trees as the operating system lists them: nothing is listed in sorted
\* order
Trees ==
    [filesystem |->
        Tree(<<JW86600, JW00886>>,
             [d \in {JW00886, JW86600} |->
                 IF d = JW00886
                 THEN <<NRCA1_UNCAL, MIRIMAGE_RATE, NRCA1_RATE_2, NRCA1_RATE>>
                 ELSE <<GUIDER2_UNCAL, GUIDER2_RATE>>]),
     preview_images |->
        Tree(<<JW86600, JW00886>>,
             [d \in {JW00886, JW86600} |->
                 IF d = JW00886 THEN <<NRCA1_UNCAL_JPG, NRCA1_RATE_JPG>>
                 ELSE <<GUIDER2_RATE_JPG>>]),
     thumbnails |->
        Tree(<<JW86600, JW00886>>,
             [d \in {JW00886, JW86600} |->
                 IF d = JW00886 THEN <<NRCA1_RATE_THUMB, MIRIMAGE_RATE_THUMB>>
                 ELSE <<GUIDER2_RATE_THUMB>>])]

\* s reversed
Reversed(s) == [i \in 1..Len(s) |-> s[Len(s) + 1 - i]]

\* The same files, listed in the opposite order
TreesListedBackwards ==
    [t \in DOMAIN Trees |->
        Tree(Reversed(Trees[t].dirs),
             [d \in DOMAIN Trees[t].entries |-> Reversed(Trees[t].entries[d])])]

\* Trees with more than the pipeline's output: the filesystem tree has a
\* directory that is no proposal directory, holding a guider file,
\* and a file whose name does not comply with the naming convention; the
\* preview tree has no directory for proposal 886 yet
TreesWithStrays ==
    [filesystem |->
        Tree(<<JW86600, MIRROR, JW00886>>,
             [d \in {JW00886, JW86600, MIRROR} |->
                 IF d = JW00886
                 THEN <<NRCA1_UNCAL, NONCOMPLIANT_RATE, NRCA1_RATE>>
                 ELSE IF d = JW86600 THEN <<GUIDER2_UNCAL, GUIDER2_RATE>>
                 ELSE <<GUIDER1_CAL>>]),
     preview_images |->
        Tree(<<JW86600>>, [d \in {JW86600} |-> <<GUIDER2_RATE_JPG>>]),
     thumbnails |-> Trees.thumbnails]

\* glob.glob(os.path.join(root, directory, prefix + '*')): the paths of the
\* entries of the directory whose name begins with the prefix, in the order
\* the directory lists them; '*' matches no leading '.'; a directory that
\* does not exist has no entries
Glob(root, tree, directory, prefix) ==
    IF directory \notin DOMAIN tree.entries THEN <<>>
    ELSE LET matching ==
                 SelectSeq(tree.entries[directory],
                           LAMBDA name : /\ StartsWith(name, prefix)
                                         /\ (prefix = <<>> => name[1] # "."))
         IN  [i \in 1..Len(matching) |->
                 PathJoin(PathJoin(root, directory), matching[i])]

\* os.path.basename(path)
BaseName(path) ==
    LET slashes == {i \in 1..Len(path) : path[i] = "/"}
        last == IF slashes = {} THEN 0
                ELSE CHOOSE i \in slashes : \A j \in slashes : j <= i
    IN  SubSeq(path, last + 1, Len(path))

BaseNames(paths) == [i \in 1..Len(paths) |-> BaseName(paths[i])]

\* sorted(paths), for paths that differ from each other
RECURSIVE Sorted(_)
Sorted(paths) ==
    IF paths = <<>> THEN <<>>
    ELSE LET least == CHOOSE i \in 1..Len(paths) :
                          \A j \in 1..Len(paths) : ~StrLess(paths[j], paths[i])
         IN  <<paths[least]>>
             \o Sorted([i \in 1..(Len(paths) - 1) |->
                           IF i < least THEN paths[i] ELSE paths[i + 1]])

\* int(s) of a string of decimal digits
DigitValue(c) == Ord(c) - Ord("0")
RECURSIVE IntOf(_)
IntOf(s) ==
    IF s = <<>> THEN 0
    ELSE 10 * IntOf(SubSeq(s, 1, Len(s) - 1)) + DigitValue(s[Len(s)])

\* '{:d}'.format(n), n >= 0
RECURSIVE Decimal(_)
Decimal(n) ==
    IF n < 10 THEN <<Alphabet[Ord("0") + n]>>
    ELSE Append(Decimal(n \div 10), Alphabet[Ord("0") + (n % 10)])

\* '{}'.format(n): no padding
Format05d_Unpadded(n) == Decimal(n)

\* '{:05d}'.format(n), n >= 0: zeros in front, up to the width of five
Format05d(n) ==
    LET digits == Decimal(n)
    IN  [i \in 1..(IF Len(digits) < 5 THEN 5 - Len(digits) ELSE 0) |-> "0"]
        \o digits

\* 'jw{}'.format(proposal_string)
JwDir(proposal_string) == <<"j", "w">> \o proposal_string

\* get_filenames_by_proposal with the proposal used as it is given
FilenamesByProposal_AsGiven(trees, proposal) ==
    BaseNames(Sorted(Glob(FILESYSTEM_DIR, trees.filesystem,
                          JwDir(proposal), <<>>)))

\* get_filenames_by_proposal
FilenamesByProposal(trees, proposal) ==
    LET proposal_string == Format05d(IntOf(proposal))
    IN  BaseNames(Sorted(Glob(FILESYSTEM_DIR, trees.filesystem,
                              JwDir(proposal_string), <<>>)))

\* get_preview_images_by_proposal
PreviewImagesByProposal(trees, proposal) ==
    LET proposal_string == Format05d(IntOf(proposal))
    IN  BaseNames(Glob(PREVIEW_IMAGE_FILESYSTEM, trees.preview_images,
                       JwDir(proposal_string), <<>>))

\* get_thumbnails_by_proposal
ThumbnailsByProposal(trees, proposal) ==
    LET proposal_string == Format05d(IntOf(proposal))
    IN  BaseNames(Glob(THUMBNAIL_FILESYSTEM, trees.thumbnails,
                       JwDir(proposal_string), <<>>))

\* The proposal numbers a lookup is given: one to MaxProposalDigits digits
ProposalArgs ==
    UNION {[1..n -> {"0", "8"}] : n \in 1..MaxProposalDigits}
        \cup {<<"8", "8", "6">>, <<"0", "8", "8", "6">>,
              <<"0", "0", "8", "8", "6">>, <<"8", "6", "6", "0", "0">>}

\* s.split(sep)[0] for a separator of one character
BeforeFirst(s, sep) ==
    LET at == {i \in 1..Len(s) : s[i] = sep}
    IN  IF at = {} THEN s
        ELSE SubSeq(s, 1, (CHOOSE i \in at : \A j \in at : i <= j) - 1)

\* s.split(sep)[-1] for a separator that cannot overlap itself
AfterLast(s, sep) ==
    LET at == {i \in 1..(Len(s) - Len(sep) + 1) :
                  SubSeq(s, i, i + Len(sep) - 1) = sep}
    IN  IF at = {} THEN s
        ELSE SubSeq(s, (CHOOSE i \in at : \A j \in at : j <= i) + Len(sep),
                    Len(s))

\* rootname.split('_')[0].split('jw')[-1] with no [0:5] after it
RootnameProposal_Unsliced(rootname) ==
    AfterLast(BeforeFirst(rootname, "_"), <<"j", "w">>)

\* rootname.split('_')[0].split('jw')[-1][0:5]
RootnameProposal(rootname) ==
    Slice(AfterLast(BeforeFirst(rootname, "_"), <<"j", "w">>), 0, 5)

\* get_filenames_by_rootname
FilenamesByRootname(trees, rootname) ==
    BaseNames(Sorted(Glob(FILESYSTEM_DIR, trees.filesystem,
                          JwDir(RootnameProposal(rootname)), rootname)))

\* get_preview_images_by_rootname
PreviewImagesByRootname(trees, rootname) ==
    BaseNames(Sorted(Glob(PREVIEW_IMAGE_FILESYSTEM, trees.preview_images,
                          JwDir(RootnameProposal(rootname)), rootname)))

\* get_thumbnails_by_rootname
ThumbnailsByRootname(trees, rootname) ==
    BaseNames(Sorted(Glob(THUMBNAIL_FILESYSTEM, trees.thumbnails,
                          JwDir(RootnameProposal(rootname)), rootname)))

\* Rootnames of no file of the trees
\* jw00886001001_02101_00001_nrcb1
NRCB1_ROOTNAME ==
    <<"j", "w", "0", "0", "8", "8", "6", "0", "0", "1", "0", "0", "1", "_",
      "0", "2", "1", "0", "1", "_", "0", "0", "0", "0", "1", "_", "n", "r",
      "c", "b", "1">>
\* jw008_02101
SHORT_ROOTNAME ==
    <<"j", "w", "0", "0", "8", "_", "0", "2", "1", "0", "1">>
\* jw00886002001_02101_00001_mirimage
MIRIMAGE_ROOTNAME ==
    <<"j", "w", "0", "0", "8", "8", "6", "0", "0", "2", "0", "0", "1", "_",
      "0", "2", "1", "0", "1", "_", "0", "0", "0", "0", "1", "_", "m", "i",
      "r", "i", "m", "a", "g", "e">>

\* The rootnames a lookup is given: what a file name of the trees begins
\* with, from 'jw' on to the whole name, and rootnames of no file
RootnameArgs ==
    {SubSeq(NRCA1_RATE, 1, k) : k \in 2..Len(NRCA1_RATE)}
        \cup {SubSeq(GUIDER2_UNCAL, 1, k) : k \in 2..Len(GUIDER2_UNCAL)}
        \cup {MIRIMAGE_ROOTNAME, NRCB1_ROOTNAME, SHORT_ROOTNAME}

get_filenames_by_proposal ==
    \E proposal \in ProposalArgs :
        /\ call' = [name |-> "get_filenames_by_proposal",
                    args |-> [proposal |-> proposal]]
        /\ ret' = Return(FilenamesByProposal(files, proposal))
        /\ trace' = <<>>
        /\ UNCHANGED <<authenticated, files, requests, static>>

get_preview_images_by_proposal ==
    \E proposal \in ProposalArgs :
        /\ call' = [name |-> "get_preview_images_by_proposal",
                    args |-> [proposal |-> proposal]]
        /\ ret' = Return(PreviewImagesByProposal(files, proposal))
        /\ trace' = <<>>
        /\ UNCHANGED <<authenticated, files, requests, static>>

get_thumbnails_by_proposal ==
    \E proposal \in ProposalArgs :
        /\ call' = [name |-> "get_thumbnails_by_proposal",
                    args |-> [proposal |-> proposal]]
        /\ ret' = Return(ThumbnailsByProposal(files, proposal))
        /\ trace' = <<>>
        /\ UNCHANGED <<authenticated, files, requests, static>>

get_filenames_by_rootname ==
    \E rootname \in RootnameArgs :
        /\ call' = [name |-> "get_filenames_by_rootname",
                    args |-> [rootname |-> rootname]]
        /\ ret' = Return(FilenamesByRootname(files, rootname))
        /\ trace' = <<>>
        /\ UNCHANGED <<authenticated, files, requests, static>>

get_preview_images_by_rootname ==
    \E rootname \in RootnameArgs :
        /\ call' = [name |-> "get_preview_images_by_rootname",
                    args |-> [rootname |-> rootname]]
        /\ ret' = Return(PreviewImagesByRootname(files, rootname))
        /\ trace' = <<>>
        /\ UNCHANGED <<authenticated, files, requests, static>>

get_thumbnails_by_rootname ==
    \E rootname \in RootnameArgs :
        /\ call' = [name |-> "get_thumbnails_by_rootname",
                    args |-> [rootname |-> rootname]]
        /\ ret' = Return(ThumbnailsByRootname(files, rootname))
        /\ trace' = <<>>
        /\ UNCHANGED <<authenticated, files, requests, static>>

\* The instruments, and instrument_match: the code each has in a file name
Instruments == {"FGS", "MIRI", "NIRCam", "NIRISS", "NIRSpec"}
instrument_match(instrument) ==
    CASE instrument = "FGS" -> <<"g", "u", "i", "d", "e", "r">>
      [] instrument = "MIRI" -> <<"m", "i", "r">>
      [] instrument = "NIRCam" -> <<"n", "r", "c">>
      [] instrument = "NIRISS" -> <<"n", "i", "s">>
      [] instrument = "NIRSpec" -> <<"n", "r", "s">>

\* s.endswith(suffix)
EndsWith(s, suffix) ==
    Len(suffix) <= Len(s)
        /\ SubSeq(s, Len(s) - Len(suffix) + 1, Len(s)) = suffix

\* glob.glob(os.path.join(root, '*', '*' + suffix)): the paths of the entries
\* whose name ends with the suffix, directory by directory, as listed
RECURSIVE GlobAllFrom(_, _, _, _)
GlobAllFrom(root, tree, suffix, n) ==
    IF n > Len(tree.dirs) THEN <<>>
    ELSE LET directory == tree.dirs[n]
             matching == SelectSeq(tree.entries[directory],
                                   LAMBDA name : /\ EndsWith(name, suffix)
                                                 /\ name[1] # ".")
         IN  (IF directory[1] = "." THEN <<>>
              ELSE [i \in 1..Len(matching) |->
                       PathJoin(PathJoin(root, directory), matching[i])])
             \o GlobAllFrom(root, tree, suffix, n + 1)

\* get_filenames_by_instrument
FilenamesByInstrument(trees, instrument) ==
    SelectSeq(GlobAllFrom(FILESYSTEM_DIR, trees.filesystem,
                          <<".", "f", "i", "t", "s">>, 1),
              LAMBDA f : Contains(f, instrument_match(instrument)))

get_filenames_by_instrument ==
    \E instrument \in Instruments :
        /\ call' = [name |-> "get_filenames_by_instrument",
                    args |-> [instrument |-> instrument]]
        /\ ret' = Return(FilenamesByInstrument(files, instrument))
        /\ trace' = <<>>
        /\ UNCHANGED <<authenticated, files, requests, static>>

\* s.split(sep) for a separator of one character
RECURSIVE Split(_, _)
Split(s, sep) ==
    LET at == {i \in 1..Len(s) : s[i] = sep}
    IN  IF at = {} THEN <<s>>
        ELSE LET first == CHOOSE i \in at : \A j \in at : i <= j
             IN  <<SubSeq(s, 1, first - 1)>>
                 \o Split(SubSeq(s, first + 1, Len(s)), sep)

\* os.path.splitext(path)[0]: the path without the extension of its last
\* component; a leading period begins no extension
SplitExtRoot(path) ==
    LET name == BaseName(path)
        dots == {i \in 2..Len(name) : name[i] = "."}
    IN  IF dots = {} THEN path
        ELSE SubSeq(path, 1, Len(path) - Len(name)
                                 + (CHOOSE i \in dots : \A j \in dots : j <= i)
                                 - 1)

\* os.path.exists of a directory of a tree, and of an entry of a directory
DirExists(tree, directory) == directory \in DOMAIN tree.entries
FileExists(tree, directory, name) ==
    /\ directory \in DOMAIN tree.entries
    /\ \E i \in 1..Len(tree.entries[directory]) :
          tree.entries[directory][i] = name

\* os.makedirs(directory) in a tree without the directory
MakeDirs(tree, directory) ==
    Tree(Append(tree.dirs, directory),
         [d \in DOMAIN tree.entries \cup {directory} |->
             IF d = directory THEN <<>> ELSE tree.entries[d]])

\* Writing the file `name` in a directory of the tree: a new entry, unless
\* the file is there already
WriteFile(tree, directory, name) ==
    IF FileExists(tree, directory, name) THEN tree
    ELSE Tree(tree.dirs,
              [tree.entries EXCEPT ![directory] = Append(@, name)])

\* glob.glob(os.path.join(root, directory, prefix + '*' + suffix))
GlobBetween(root, tree, directory, prefix, suffix) ==
    IF directory \notin DOMAIN tree.entries THEN <<>>
    ELSE LET matching ==
                 SelectSeq(tree.entries[directory],
                           LAMBDA name :
                               /\ Len(prefix) + Len(suffix) <= Len(name)
                               /\ StartsWith(name, prefix)
                               /\ EndsWith(name, suffix)
                               /\ (prefix = <<>> => name[1] # "."))
         IN  [i \in 1..Len(matching) |->
                 PathJoin(PathJoin(root, directory), matching[i])]

\* jwql.utils.preview_image.PreviewImage(file, 'SCI').make_image() with
\* output_directory = jpg_dir: the preview of integration 0 is written to
\* <jpg_dir>/<name of the file without .fits>_integ0.jpg, when the file has
\* an integration to show (`writes`)
make_image(tree, file, directory, writes) ==
    IF writes
    THEN WriteFile(tree, directory,
                   BaseName(SplitExtRoot(file) \o <<"_", "i", "n", "t", "e", "g", "0", ".", "j", "p", "g">>))
    ELSE tree

\* Line 534 with the condition taken as `os.path.exists(jpg_filepath)` alone
NeedsImage_WhateverRewrite(exists, rewrite) == ~exists

\* Lines 534-538: the image is made unless the jpg exists and rewrite is False
NeedsImage(exists, rewrite) == ~(exists /\ ~rewrite)

\* Lines 521-551: the loop over image_info['all_files'], from file i on.
\* st is the state of the call: the trees, the calls made, image_info, and
\* the exception raised, if one was
RECURSIVE ImageInfoLoop(_, _, _, _, _)
ImageInfoLoop(st, file_root, rewrite, writes, i) ==
    IF i > Len(st.info.all_files) \/ st.raised # "" THEN st
    ELSE LET file == st.info.all_files[i]
             dirname == Slice(file_root, 0, 7)
             fields == Split(BaseName(file), "_")
         IN  IF Len(fields) < 5 THEN [st EXCEPT !.raised = "IndexError"]
             ELSE
             LET suffix == Split(fields[5], ".")[1]
                 jpg_dir == PathJoin(PREVIEW_IMAGE_FILESYSTEM, dirname)
                 jpg_filename ==
                     BaseName(SplitExtRoot(file) \o <<"_", "i", "n", "t", "e", "g", "0", ".", "j", "p", "g">>)
                 jpg_filepath == PathJoin(jpg_dir, jpg_filename)
                 previews == st.trees.preview_images
                 exists == FileExists(previews, dirname, jpg_filename)
                 needed == NeedsImage(exists, rewrite)
                 makes_dir == needed /\ ~DirExists(previews, dirname)
                 with_dir == IF makes_dir THEN MakeDirs(previews, dirname)
                             ELSE previews
                 after == IF needed
                          THEN make_image(with_dir, file, dirname, writes)
                          ELSE previews
                 made == (IF makes_dir
                          THEN <<[fn |-> "os.makedirs", path |-> jpg_dir,
                                  file |-> file]>>
                          ELSE <<>>)
                         \o (IF needed
                             THEN <<[fn |-> "make_image", path |-> jpg_dir,
                                     file |-> file]>>
                             ELSE <<>>)
                 num_jpgs ==
                     Len(GlobBetween(PREVIEW_IMAGE_FILESYSTEM, after, dirname,
                                     file_root \o <<"_">> \o suffix
                                         \o <<"_", "i", "n", "t", "e", "g">>,
                                     <<".", "j", "p", "g">>))
                 next ==
                     [trees |-> [st.trees EXCEPT !.preview_images = after],
                      trace |-> st.trace \o made,
                      raised |-> "",
                      info |-> [st.info EXCEPT
                          !.suffixes = Append(@, suffix),
                          !.num_ints = (suffix :> num_jpgs) @@ @,
                          !.all_jpegs = Append(@, jpg_filepath)]]
             IN  ImageInfoLoop(next, file_root, rewrite, writes, i + 1)

\* get_image_info(file_root, rewrite), lines 508-553
GetImageInfo(trees, file_root, rewrite, writes) ==
    LET dirname == Slice(file_root, 0, 7)
        all_files == GlobBetween(FILESYSTEM_DIR, trees.filesystem, dirname,
                                 file_root, <<".", "f", "i", "t", "s">>)
        start == [trees |-> trees, trace |-> <<>>, raised |-> "",
                  info |-> [all_jpegs |-> <<>>, suffixes |-> <<>>,
                            num_ints |-> <<>>, all_files |-> all_files]]
    IN  ImageInfoLoop(start, file_root, rewrite, writes, 1)

\* The file roots get_image_info is given: a rootname of two files, a
\* rootname of one file with and one without a preview, the beginning of
\* every name of a proposal directory, and a rootname of no file
ImageRoots ==
    {SubSeq(NRCA1_RATE, 1, 31), SubSeq(GUIDER2_RATE, 1, 33),
     SubSeq(NRCA1_RATE_2, 1, 31), JW00886, NRCB1_ROOTNAME}

get_image_info ==
    \E file_root \in ImageRoots, rewrite \in BOOLEAN, writes \in BOOLEAN :
        LET r == GetImageInfo(files, file_root, rewrite, writes)
        IN  /\ call' = [name |-> "get_image_info",
                        args |-> [file_root |-> file_root, rewrite |-> rewrite],
                        entry |-> [files |-> files, writes |-> writes]]
            /\ ret' = IF r.raised # "" THEN Raise(r.raised)
                      ELSE Return(r.info)
            /\ trace' = r.trace
            /\ files' = r.trees
            /\ UNCHANGED <<authenticated, requests, static>>

\* jwql.utils.utils.filename_parser(filename): the fields of a name that
\* follows the JWST naming convention,
\*   jw<ppppp><ooo><vvv>_<gg><s><aa>_<eeeee>_<detector>[_<suffix>.<ext>],
\* and ValueError for a name that does not follow it
Digits == {"0", "1", "2", "3", "4", "5", "6", "7", "8", "9"}
IsDigits(s) == \A i \in 1..Len(s) : s[i] \in Digits
Complies(fields, has_suffix) ==
    /\ Len(fields) >= (IF has_suffix THEN 5 ELSE 4)
    /\ Len(fields[1]) = 13
    /\ SubSeq(fields[1], 1, 2) = <<"j", "w">>
    /\ IsDigits(SubSeq(fields[1], 3, 13))
    /\ Len(fields[2]) = 5
    /\ IsDigits(SubSeq(fields[2], 1, 3))
    /\ fields[3] # <<>>
    /\ IsDigits(fields[3])
    /\ fields[4] # <<>>
NamedFields(fields) ==
    [program_id |-> SubSeq(fields[1], 3, 7),
     observation |-> SubSeq(fields[1], 8, 10),
     visit |-> SubSeq(fields[1], 11, 13),
     visit_group |-> SubSeq(fields[2], 1, 2),
     parallel_seq_id |-> SubSeq(fields[2], 3, 3),
     activity |-> SubSeq(fields[2], 4, 5),
     exposure_id |-> fields[3],
     detector |-> fields[4]]
WithSuffix(named, suffix) ==
    [key \in DOMAIN named \cup {"suffix"} |->
        IF key = "suffix" THEN suffix ELSE named[key]]
ParsedFields(fields, has_suffix) ==
    IF ~Complies(fields, has_suffix) THEN Raise("ValueError")
    ELSE IF has_suffix
    THEN Return(WithSuffix(NamedFields(fields), fields[5]))
    ELSE Return(NamedFields(fields))
filename_parser(filename) ==
    LET parts == Split(BaseName(filename), ".")
    IN  ParsedFields(Split(parts[1], "_"), Len(parts) > 1)

\* jwql.utils.constants.MONITORS
MONITORS == "MONITORS"

\* '_'.join(f.split('/')[-1].split('_')[:-1]): the name of the file up to its
\* last underscore
FileId(f) ==
    LET name == BaseName(f)
        at == {i \in 1..Len(name) : name[i] = "_"}
    IN  IF at = {} THEN <<>>
        ELSE SubSeq(name, 1, (CHOOSE i \in at : \A j \in at : j <= i) - 1)

\* set([... for f in filepaths])
FileIds(filepaths) == {FileId(filepaths[i]) : i \in 1..Len(filepaths)}

\* The orders a set of strings may be iterated in
Orders(ids) ==
    {order \in [1..Cardinality(ids) -> ids] :
        \A i, j \in 1..Cardinality(ids) : order[i] = order[j] => i = j}

\* Lines 879-881 and 946-948: the ids, in the order the set gives them, of
\* the given proposal when one is given
IdsOfProposal(order, proposal) ==
    IF proposal = None THEN order
    ELSE LET proposal_string == Format05d(IntOf(proposal))
         IN  SelectSeq(order, LAMBDA f : Slice(f, 2, 7) = proposal_string)

\* split_files(filepaths, page_type), line 871: data_containers.py neither
\* defines nor imports the name, so that the call raises NameError
split_files(filepaths, page_type) == Raise("NameError")

\* Lines 886-896: program_id and detector of a file id, from the files of
\* the id in turn; the last file of the id decides.  For a file the parser
\* rejects, line 895 reads nfile_id, a name that is not defined: NameError
ParsedOrNameError(parsed) ==
    IF parsed.kind = "raise" THEN Raise("NameError")
    ELSE Return([program_id |-> parsed.value.program_id,
                 detector |-> parsed.value.detector])
RECURSIVE ParsedOfId(_, _, _, _)
ParsedOfId(filepaths, file_id, n, found) ==
    IF n > Len(filepaths) \/ found.kind = "raise" THEN found
    ELSE ParsedOfId(filepaths, file_id, n + 1,
                    IF FileId(filepaths[n]) # file_id THEN found
                    ELSE ParsedOrNameError(filename_parser(filepaths[n])))

\* x in list
InList(list, x) == \E k \in 1..Len(list) : list[k] = x

\* Lines 898-902: the parameters to sort by, with those of one more id
WithParameters(lists, detector, program_id) ==
    [detectors |->
         IF ~InList(lists.detectors, detector)
             /\ ~StartsWith(detector, <<"f">>)
         THEN Append(lists.detectors, detector)
         ELSE lists.detectors,
     proposals |->
         IF ~InList(lists.proposals, program_id)
         THEN Append(lists.proposals, program_id)
         ELSE lists.proposals]

\* Lines 898-902 for the program_id and detector lines 886-896 left: what
\* they raised, is raised; with none assigned yet, line 899 raises
SortingStep(lists, found) ==
    IF found.kind = "raise" THEN found
    ELSE IF found.kind = "unbound" THEN Raise("UnboundLocalError")
    ELSE Return(WithParameters(lists.value, found.value.detector,
                               found.value.program_id))

\* Lines 883-902: the detectors and proposals to sort by, from id i on;
\* `found` is what program_id and detector hold from the ids before
RECURSIVE SortingParameters(_, _, _, _, _)
RECURSIVE SortingNext(_, _, _, _, _)
SortingParameters(filepaths, full_ids, i, lists, found) ==
    IF i > Len(full_ids) \/ lists.kind = "raise" THEN lists
    ELSE SortingNext(filepaths, full_ids, i, lists,
                     ParsedOfId(filepaths, full_ids[i], 1, found))
SortingNext(filepaths, full_ids, i, lists, found) ==
    SortingParameters(filepaths, full_ids, i + 1, SortingStep(lists, found),
                      found)

\* Lines 904-916: dict_to_render
DictToRender(lists, inst, proposal) ==
    IF lists.kind = "raise" THEN lists
    ELSE Return([inst |-> inst,
                 tools |-> MONITORS,
                 dropdown_menus |->
                     IF proposal # None
                     THEN [detector |-> lists.value.detectors]
                     ELSE [detector |-> lists.value.detectors,
                           proposal |-> lists.value.proposals],
                 prop |-> proposal])

\* Lines 875-918 of thumbnails, for the file paths split_files gave; `order`
\* is the order the set of file ids is iterated in
ThumbnailsOfSplit(filepaths, inst, proposal, order) ==
    DictToRender(
        SortingParameters(
            filepaths,
            IdsOfProposal(SelectSeq(order,
                                    LAMBDA f : f \in FileIds(filepaths)),
                          proposal),
            1,
            Return([detectors |-> <<>>, proposals |-> <<>>]),
            [kind |-> "unbound"]),
        inst, proposal)

\* thumbnails(inst, proposal): lines 863-918; the call of split_files raises,
\* and no statement after it is reached
Thumbnails(trees, inst, proposal, order) ==
    LET filepaths == FilenamesByInstrument(trees, inst)
        page_type == IF proposal # None THEN "archive" ELSE "unlooked"
        split == split_files(filepaths, page_type)
    IN  IF split.kind = "raise" THEN split
        ELSE ThumbnailsOfSplit(split.value, inst, proposal, order)

\* The proposals thumbnails is given: None, or a proposal number
ThumbnailProposals ==
    {None, <<"8">>, <<"8", "8", "6">>, <<"0", "0", "8", "8", "6">>,
     <<"8", "6", "6", "0", "0">>}

thumbnails ==
    \E inst \in Instruments, proposal \in ThumbnailProposals :
        \E order \in Orders(FileIds(FilenamesByInstrument(files, inst))) :
            /\ call' = [name |-> "thumbnails",
                        args |-> [inst |-> inst, proposal |-> proposal]]
            /\ ret' = Thumbnails(files, inst, proposal, order)
            /\ trace' = <<>>
            /\ UNCHANGED <<authenticated, files, requests, static>>

\* get_expstart(rootname), lines 365-384
get_expstart(rootname) == 5000

\* Lines 963-970: the filename_dict of a rootname the parser rejects, from
\* fixed positions of the rootname; rootname[16] raises IndexError for a
\* rootname of sixteen characters or fewer, a slice raises nothing
FallbackDict(rootname) ==
    IF Len(rootname) <= 16 THEN Raise("IndexError")
    ELSE Return([activity |-> Slice(rootname, 17, 19),
                 detector |-> Slice(rootname, 26, Len(rootname)),
                 exposure_id |-> Slice(rootname, 20, 25),
                 observation |-> Slice(rootname, 7, 10),
                 parallel_seq_id |-> <<rootname[17]>>,
                 program_id |-> Slice(rootname, 2, 7),
                 visit |-> Slice(rootname, 10, 13),
                 visit_group |-> Slice(rootname, 14, 16)])

\* Lines 959-970: try filename_parser(rootname), except ValueError
ParsedOrFallback(parsed, rootname) ==
    IF parsed.kind = "raise" THEN FallbackDict(rootname) ELSE parsed

\* Line 980, for one file: filename_parser(filename)['suffix'], appended
SuffixAppended(suffixes, parsed) ==
    IF suffixes.kind = "raise" THEN suffixes
    ELSE IF parsed.kind = "raise" THEN parsed
    ELSE IF "suffix" \notin DOMAIN parsed.value THEN Raise("KeyError")
    ELSE Return(Append(suffixes.value, parsed.value.suffix))

\* Lines 980-981: the suffixes of the available files, from file n on; an
\* exception of the parser is not caught here
RECURSIVE SuffixesOf(_, _, _)
SuffixesOf(available_files, n, suffixes) ==
    IF n > Len(available_files) THEN suffixes
    ELSE SuffixesOf(available_files, n + 1,
                    SuffixAppended(suffixes,
                                   filename_parser(available_files[n])))

\* Lines 976-981: the entry of a rootname in data_dict['file_data']
FileDataEntry(rootname, filename_dict, available_files, suffixes) ==
    IF filename_dict.kind = "raise" THEN filename_dict
    ELSE IF suffixes.kind = "raise" THEN suffixes
    ELSE Return([filename_dict |-> filename_dict.value,
                 available_files |-> available_files,
                 expstart |-> get_expstart(rootname),
                 suffixes |-> suffixes.value])

\* data_dict['file_data'][rootname] = entry
WithEntry(file_data, rootname, entry) ==
    IF file_data.kind = "raise" THEN file_data
    ELSE IF entry.kind = "raise" THEN entry
    ELSE Return([r \in DOMAIN file_data.value \cup {rootname} |->
                    IF r = rootname THEN entry.value ELSE file_data.value[r]])

\* Lines 956-981: data_dict['file_data'], from rootname i on
RECURSIVE FileData(_, _, _, _)
FileData(trees, rootnames, i, file_data) ==
    IF i > Len(rootnames) \/ file_data.kind = "raise" THEN file_data
    ELSE FileData(
             trees, rootnames, i + 1,
             WithEntry(file_data, rootnames[i],
                       FileDataEntry(
                           rootnames[i],
                           ParsedOrFallback(filename_parser(rootnames[i]),
                                            rootnames[i]),
                           FilenamesByRootname(trees, rootnames[i]),
                           SuffixesOf(FilenamesByRootname(trees, rootnames[i]),
                                      1, Return(<<>>)))))

\* Lines 983-1000: the dropdown menus, in the order of the keys of
\* file_data, and data_dict
DataDict(file_data, rootnames, inst, proposal) ==
    IF file_data.kind = "raise" THEN file_data
    ELSE Return(
        [inst |-> inst,
         file_data |-> file_data.value,
         tools |-> MONITORS,
         dropdown_menus |->
             IF proposal # None
             THEN [detector |->
                      [i \in 1..Len(rootnames) |->
                          file_data.value[rootnames[i]].filename_dict.detector]]
             ELSE [detector |->
                      [i \in 1..Len(rootnames) |->
                          file_data.value[rootnames[i]].filename_dict.detector],
                   proposal |->
                      [i \in 1..Len(rootnames) |->
                          file_data.value[rootnames[i]].filename_dict.program_id]],
         prop |-> proposal])

\* thumbnails_ajax(inst, proposal), lines 939-1000; `order` is the order the
\* set of rootnames is iterated in
ThumbnailsAjax(trees, inst, proposal, order) ==
    DataDict(FileData(trees, IdsOfProposal(order, proposal), 1, Return(<<>>)),
             IdsOfProposal(order, proposal), inst, proposal)

thumbnails_ajax ==
    \E inst \in Instruments, proposal \in ThumbnailProposals :
        \E order \in Orders(FileIds(FilenamesByInstrument(files, inst))) :
            /\ call' = [name |-> "thumbnails_ajax",
                        args |-> [inst |-> inst, proposal |-> proposal]]
            /\ ret' = ThumbnailsAjax(files, inst, proposal, order)
            /\ trace' = <<>>
            /\ UNCHANGED <<authenticated, files, requests, static>>

----------------------------------------------------------------------------
(* The programs: the functions of each source file, called in any order *)

NoCall == [name |-> "none", args |-> <<>>]

InitEdb ==
    /\ authenticated = FALSE
    /\ call = NoCall
    /\ ret = Return(None)
    /\ trace = <<>>
    /\ requests = NoRequests
    /\ static = NoDownloads
    /\ files = Trees

NextEdb ==
    \/ get_mnemonic
    \/ get_mnemonics

\* jwql/edb/engineering_database.py
SpecEdb == InitEdb /\ [][NextEdb]_vars

InitPage ==
    /\ authenticated = FALSE
    /\ call = NoCall
    /\ ret = Return(None)
    /\ trace = <<>>
    /\ requests = NoRequests
    /\ static = NoDownloads
    /\ files = Trees

NextPage ==
    \/ log_into_mast
    \/ get_edb_components

\* data_containers.py: the EDB page and the MAST login
SpecPage == InitPage /\ [][NextPage]_vars

InitFiles ==
    /\ authenticated = FALSE
    /\ call = NoCall
    /\ ret = Return(None)
    /\ trace = <<>>
    /\ requests = NoRequests
    /\ static = NoDownloads
    /\ files \in {Trees, TreesListedBackwards, TreesWithStrays}

NextFiles ==
    \/ get_filenames_by_instrument
    \/ get_filenames_by_proposal
    \/ get_preview_images_by_proposal
    \/ get_thumbnails_by_proposal
    \/ thumbnails

\* data_containers.py: the lookups by instrument and by proposal
SpecFiles == InitFiles /\ [][NextFiles]_vars

NextRootname ==
    \/ get_filenames_by_rootname
    \/ get_preview_images_by_rootname
    \/ get_thumbnails_by_rootname

\* data_containers.py: the lookups by rootname
SpecRootname == InitFiles /\ [][NextRootname]_vars

NextImage ==
    \/ get_image_info

\* data_containers.py: the image information of a file root
SpecImage == InitFiles /\ [][NextImage]_vars

NextThumbnails ==
    \/ thumbnails
    \/ thumbnails_ajax

\* data_containers.py: the thumbnail pages
SpecThumbnails == InitFiles /\ [][NextThumbnails]_vars

NextConcurrent ==
    \E r \in RequestIds :
        \/ query_mnemonic(r)
        \/ write_table(r)
        \/ return_components(r)

\* data_containers.py: two mnemonic queries processed at the same time
SpecConcurrent == InitPage /\ [][NextConcurrent]_vars

----------------------------------------------------------------------------
(* Claims about engineering_database.py *)

Called(name) == call.name = name
Returned(name) == call.name = name /\ ret.kind = "return"
Raised(name) == call.name = name /\ ret.kind = "raise"

\* C1: every EdbMnemonic returned by get_mnemonic(mnemonic_identifier,
\* start_time, end_time) has the start_time and end_time it was called with,
\* and every record time of its data table lies within [start_time, end_time].
C1_TimesWithinInterval ==
    Returned("get_mnemonic") =>
        /\ ret.value.start_time = call.args.start_time
        /\ ret.value.end_time = call.args.end_time
        /\ \A i \in 1..Len(ret.value.data) :
              /\ call.args.start_time <= ret.value.data[i].MJD
              /\ ret.value.data[i].MJD <= call.args.end_time

\* C1's case: a query over an interval that holds records and leaves records
\* of the mnemonic out, at both ends
C1_Witness ==
    /\ Returned("get_mnemonic")
    /\ Len(ret.value.data) >= 1
    /\ call.args.start_time < call.args.end_time
    /\ \E t \in EdbRecordTimes(call.args.mnemonic_identifier) :
          t < call.args.start_time
    /\ \E t \in EdbRecordTimes(call.args.mnemonic_identifier) :
          t > call.args.end_time

\* the elements of a sequence, each at its first occurrence
FirstOccurrences(seq) ==
    LET firsts == {i \in 1..Len(seq) : \A j \in 1..(i - 1) : seq[j] # seq[i]}
        F[n \in 0..Len(seq)] ==
            IF n = 0 THEN <<>>
            ELSE IF n \in firsts THEN Append(F[n - 1], seq[n]) ELSE F[n - 1]
    IN  F[Len(seq)]

\* C2: for a list or array of identifiers, get_mnemonics returns a dictionary
\* whose keys are exactly the queried identifiers, in the order of their first
\* occurrence in the input, and the value under each key k is an EdbMnemonic
\* whose mnemonic_identifier is k and whose start_time and end_time are the
\* arguments of get_mnemonics.
C2_DictOfQueried ==
    Returned("get_mnemonics") =>
        LET items == call.args.mnemonics.items
            d == ret.value
        IN  /\ d.keys = FirstOccurrences(items)
            /\ DOMAIN d.items = {items[i] : i \in 1..Len(items)}
            /\ \A k \in DOMAIN d.items :
                  /\ d.items[k].mnemonic_identifier = k
                  /\ d.items[k].start_time = call.args.start_time
                  /\ d.items[k].end_time = call.args.end_time

\* C2's case: an identifier is repeated after another one was queried
C2_Witness ==
    /\ Returned("get_mnemonics")
    /\ call.args.mnemonics.items = <<SA_B, SA_Z, SA_B>>
    /\ ret.value.keys = <<SA_B, SA_Z>>

\* C3: when the mnemonics argument is neither a list nor a numpy array,
\* get_mnemonics raises RuntimeError and issues no query.
C3_NotAListRaises ==
    (Called("get_mnemonics") /\ call.args.mnemonics.type \notin {"list", "ndarray"}) =>
        /\ ret = Raise("RuntimeError")
        /\ trace = <<>>

\* C3's case: get_mnemonics is given a single string identifier
C3_Witness ==
    /\ Called("get_mnemonics")
    /\ call.args.mnemonics = [type |-> "str", items |-> SA_Z]
    /\ ret.kind = "raise"

\* the request get_mnemonic(m, s, e) is to issue
ExpectedRequest(m, s, e) ==
    [fn |-> "query_single_mnemonic", mnemonic_identifier |-> m,
     start_time |-> s, end_time |-> e, token |-> MAST_TOKEN]

\* C4: no retry and no caching.  get_mnemonic issues exactly one
\* query_single_mnemonic request; get_mnemonics issues one request per element
\* of its input, in input order, a repeated identifier being queried again; and
\* when a request fails the failure reaches the caller and the failed request
\* is the last one issued.
C4_OneRequestEach ==
    /\ Called("get_mnemonic") =>
          trace = <<ExpectedRequest(call.args.mnemonic_identifier,
                                    call.args.start_time, call.args.end_time)>>
    /\ (Called("get_mnemonics") /\ call.args.mnemonics.type \in {"list", "ndarray"}) =>
          LET items == call.args.mnemonics.items
          IN  /\ Len(trace) <= Len(items)
              /\ \A i \in 1..Len(trace) :
                    trace[i] = ExpectedRequest(items[i], call.args.start_time,
                                               call.args.end_time)
              /\ ret.kind = "return" => Len(trace) = Len(items)
              /\ ret.kind = "raise" => ret.value = "QueryError" /\ Len(trace) >= 1

\* C4's case: the second of three requests fails, and the third, for an
\* identifier queried before, is not issued
C4_Witness ==
    /\ Raised("get_mnemonics")
    /\ call.args.mnemonics.items = <<SA_Z, SA_B, SA_Z>>
    /\ Len(trace) = 2

\* C4's other case: a repeated identifier is queried again
C4_WitnessRepeated ==
    /\ Returned("get_mnemonics")
    /\ call.args.mnemonics.items = <<SA_Z, SA_Z>>
    /\ Len(trace) = 2

----------------------------------------------------------------------------
(* Claims about the EDB page of data_containers.py *)

\* the Mast.login calls among the calls made
Logins == SelectSeq(trace, LAMBDA ev : ev.fn = "Mast.login")
TokenReads == SelectSeq(trace, LAMBDA ev : ev.fn = "get_mast_token")

\* C5: log_into_mast logs in only if necessary.  Entered with the client
\* authenticated it returns True without reading the request's token and
\* without calling login; otherwise, if the request carries no token, it returns
\* False without calling login; otherwise it calls login exactly once, with that
\* token, and returns the client's authenticated status.  Whenever it returns
\* True the client is authenticated at the time of return.
C5_LoginOnlyIfNecessary ==
    Called("log_into_mast") =>
        LET token == call.args.request.token
        IN  /\ call.entry.authenticated =>
                /\ ret.kind = "return" /\ ret.value = TRUE
                /\ TokenReads = <<>>
                /\ Logins = <<>>
            /\ (~call.entry.authenticated /\ token = None) =>
                /\ ret.kind = "return" /\ ret.value = FALSE
                /\ Logins = <<>>
            /\ (~call.entry.authenticated /\ token # None) =>
                /\ Logins = <<[fn |-> "Mast.login", token |-> token]>>
                /\ ret.kind = "return" => ret.value = authenticated
            /\ (ret.kind = "return" /\ ret.value = TRUE) => authenticated

\* C5's case: the client is anonymous, the request carries a token, and the one
\* login makes the client authenticated
C5_Witness ==
    /\ Called("log_into_mast")
    /\ ~call.entry.authenticated
    /\ call.args.request.token = TOKEN_2
    /\ Len(Logins) = 1
    /\ ret.kind = "return" /\ ret.value = TRUE
    /\ authenticated

SevenComponents ==
    {"mnemonic_query_form", "mnemonic_name_search_form",
     "mnemonic_exploration_form", "mnemonic_query_result",
     "mnemonic_query_result_plot", "mnemonic_name_search_result",
     "mnemonic_exploration_result"}

\* an external service (MAST, the EDB) failed the call
ServiceFailed == ret.kind = "raise" /\ ret.value \in {"QueryError", "LoginError"}

\* C6: for every incoming request (a GET, or a POST carrying any set of keys,
\* also none of 'mnemonic_name_search', 'mnemonic_query',
\* 'mnemonic_exploration'), get_edb_components returns a dictionary that
\* contains all seven components (stated for the calls no external service
\* fails).
C6_AllSevenComponents ==
    (Called("get_edb_components") /\ ~ServiceFailed) =>
        /\ ret.kind = "return"
        /\ DOMAIN ret.value = SevenComponents

\* str.upper() of one character
Upper(c) ==
    CASE c = "a" -> "A" [] c = "b" -> "B" [] c = "s" -> "S" [] c = "z" -> "Z"
      [] OTHER -> c

\* the pattern occurs in the item, letters compared without regard to case
MatchesIgnoringCase(pattern, item) ==
    \E at \in 0..(Len(item) - Len(pattern)) :
        \A i \in 1..Len(pattern) : Upper(pattern[i]) = Upper(item[at + i])

\* the rows of the inventory that every filled field matches
RowsMatchingAll(values) ==
    SelectSeq(Inventory,
              LAMBDA row : \A f \in DOMAIN values :
                  values[f] # <<>> =>
                      MatchesIgnoringCase(values[f], row[FieldLabel(f)]))

\* the orders in which the fields can be applied
FieldOrders ==
    {o \in [1..Len(ExplorationFields) -> DOMAIN NoFieldValues] :
        \A i, j \in DOMAIN o : i # j => o[i] # o[j]}

ValidExploration ==
    /\ Called("get_edb_components")
    /\ call.args.request.method = "POST"
    /\ call.args.request.POST = {"mnemonic_exploration"}
    /\ call.args.request.form.valid

\* C7: for a valid mnemonic exploration form, the filtered table is exactly the
\* rows of the full inventory, in inventory order, for which every non-empty
\* field matches (case-insensitive search) the column named by the field's
\* label; empty fields restrict nothing, and the order in which the fields are
\* applied does not change the result.
C7_FilterIsConjunction ==
    ValidExploration =>
        LET values == call.args.request.form.values
            expected == RowsMatchingAll(values)
        IN  /\ ret.kind = "return"
            /\ trace[2].fn = "Table.write" /\ trace[2].rows = expected
            /\ IF expected = <<>>
               THEN ret.value.mnemonic_exploration_result.type = "str"
               ELSE /\ ret.value.mnemonic_exploration_result.type = "Table"
                    /\ ret.value.mnemonic_exploration_result.rows = expected
            /\ \A o \in FieldOrders :
                  FilterFields(o, Len(o), values, Inventory) = expected

\* C7's case: two filled fields, each matching only without regard to case, and
\* a row that only the two together single out
C7_Witness ==
    /\ ValidExploration
    /\ call.args.request.form.values =
          [description |-> <<"a">>, subsystem |-> <<"Z">>, tlm_mnemonic |-> <<>>]
    /\ Len(trace[2].rows) = 1
    /\ trace[2].rows[1].description = <<"A">>

----------------------------------------------------------------------------
(* Claims about the file lookups of data_containers.py *)

\* C8: for every supported instrument and every proposal (None or a one- to
\* five-digit proposal number), thumbnails(inst, proposal) returns a
\* dictionary with exactly the keys 'inst', 'tools', 'dropdown_menus' and
\* 'prop', 'inst' being the given instrument and 'prop' the given proposal.
C8_ThumbnailsParameters ==
    Called("thumbnails") =>
        /\ ret.kind = "return"
        /\ DOMAIN ret.value = {"inst", "tools", "dropdown_menus", "prop"}
        /\ ret.value.inst = call.args.inst
        /\ ret.value.prop = call.args.proposal

\* a proposal number with zeros in front, to five digits
ZeroPadded(proposal) ==
    [i \in 1..(5 - Len(proposal)) |-> "0"] \o proposal

\* the names of the entries of directory jw<digits> of a tree
EntriesOf(tree, digits) ==
    LET directory == <<"j", "w">> \o digits
    IN  IF directory \in DOMAIN tree.entries
        THEN {tree.entries[directory][i] :
                 i \in 1..Len(tree.entries[directory])}
        ELSE {}

\* a sequence of names in increasing order
Increasing(names) ==
    \A i, j \in 1..Len(names) : i < j => StrLess(names[i], names[j])

\* what a by-proposal lookup is to give for the proposal written with five
\* digits, and the tree it looks in
ByProposalOfPadded ==
    LET padded == ZeroPadded(call.args.proposal)
    IN  CASE Called("get_filenames_by_proposal") ->
                 [result |-> FilenamesByProposal(files, padded),
                  tree |-> files.filesystem]
          [] Called("get_preview_images_by_proposal") ->
                 [result |-> PreviewImagesByProposal(files, padded),
                  tree |-> files.preview_images]
          [] Called("get_thumbnails_by_proposal") ->
                 [result |-> ThumbnailsByProposal(files, padded),
                  tree |-> files.thumbnails]

CalledByProposal ==
    \/ Called("get_filenames_by_proposal")
    \/ Called("get_preview_images_by_proposal")
    \/ Called("get_thumbnails_by_proposal")

\* C9: the by-proposal lookups take a proposal number of one to five digits
\* and pad it with zeros to five: the proposal and its zero-padded form give the
\* same result, every entry returned is the base name of an entry of the
\* directory jw<five-digit proposal> of the lookup's tree, and
\* get_filenames_by_proposal returns the names in sorted order.
C9_ProposalZeroPadded ==
    CalledByProposal =>
        /\ ret.kind = "return"
        /\ ret.value = ByProposalOfPadded.result
        /\ \A i \in 1..Len(ret.value) :
              ret.value[i] \in EntriesOf(ByProposalOfPadded.tree,
                                         ZeroPadded(call.args.proposal))
        /\ Called("get_filenames_by_proposal") => Increasing(ret.value)

\* C9's case: proposal 886 is given with three digits, and the four files of
\* jw00886, which the directory lists in another order, come back sorted
C9_Witness ==
    /\ Returned("get_filenames_by_proposal")
    /\ call.args.proposal = <<"8", "8", "6">>
    /\ files = Trees
    /\ ret.value = <<NRCA1_RATE, NRCA1_UNCAL, NRCA1_RATE_2, MIRIMAGE_RATE>>

\* the rootname's first field: what comes before its first underscore
FirstField(rootname) ==
    LET n == CHOOSE k \in 0..Len(rootname) :
                 /\ \A i \in 1..k : rootname[i] # "_"
                 /\ k < Len(rootname) => rootname[k + 1] = "_"
    IN  SubSeq(rootname, 1, n)

\* the first five characters after the 'jw' the first field begins with
FiveAfterJw(rootname) ==
    LET field == FirstField(rootname)
    IN  SubSeq(field, 3, IF Len(field) < 7 THEN Len(field) ELSE 7)

BeginsWith(name, rootname) ==
    /\ Len(rootname) <= Len(name)
    /\ \A i \in 1..Len(rootname) : name[i] = rootname[i]

CalledByRootname ==
    \/ Called("get_filenames_by_rootname")
    \/ Called("get_preview_images_by_rootname")
    \/ Called("get_thumbnails_by_rootname")

ByRootnameTree ==
    CASE Called("get_filenames_by_rootname") -> files.filesystem
      [] Called("get_preview_images_by_rootname") -> files.preview_images
      [] Called("get_thumbnails_by_rootname") -> files.thumbnails

\* C10: for every rootname, get_filenames_by_rootname (and likewise
\* get_preview_images_by_rootname and get_thumbnails_by_rootname) returns, in
\* sorted order, exactly the base names of the entries of the directory
\* jw<first five characters after 'jw' of the rootname's first field> whose
\* name begins with the rootname; every name returned begins with the
\* rootname and none is a file of another proposal directory.
C10_RootnameLookup ==
    CalledByRootname =>
        LET rootname == call.args.rootname
            returned == {ret.value[i] : i \in 1..Len(ret.value)}
        IN  /\ ret.kind = "return"
            /\ Increasing(ret.value)
            /\ returned = {name \in EntriesOf(ByRootnameTree, FiveAfterJw(rootname)) :
                              BeginsWith(name, rootname)}
            /\ \A name \in returned : BeginsWith(name, rootname)
            /\ \A d \in DOMAIN ByRootnameTree.entries :
                  d # <<"j", "w">> \o FiveAfterJw(rootname) =>
                      \A i \in 1..Len(ByRootnameTree.entries[d]) :
                          ByRootnameTree.entries[d][i] \notin returned

\* C10's case: a rootname of two files of jw00886, which holds files of other
\* rootnames too and lists the two in the opposite order
C10_Witness ==
    /\ Returned("get_filenames_by_rootname")
    /\ call.args.rootname = SubSeq(NRCA1_RATE, 1, 31)
    /\ files = Trees
    /\ ret.value = <<NRCA1_RATE, NRCA1_UNCAL>>

----------------------------------------------------------------------------
(* Claims about the lookup by instrument *)

\* The directory a path lies in
DirName(path) == SubSeq(path, 1, Len(path) - Len(BaseName(path)) - 1)

\* C11: every path get_filenames_by_instrument returns is a .fits file one
\* level below the filesystem root whose file name carries the naming code
\* of the given instrument, whatever the directories on the path are named.
C11_FilesOfTheInstrument ==
    Called("get_filenames_by_instrument") =>
        /\ ret.kind = "return"
        /\ \A i \in 1..Len(ret.value) :
              LET path == ret.value[i]
                  name == BaseName(path)
                  code == CASE call.args.instrument = "FGS" ->
                                   <<"g", "u", "i", "d", "e", "r">>
                            [] call.args.instrument = "MIRI" -> <<"m", "i", "r">>
                            [] call.args.instrument = "NIRCam" ->
                                   <<"n", "r", "c">>
                            [] call.args.instrument = "NIRISS" ->
                                   <<"n", "i", "s">>
                            [] call.args.instrument = "NIRSpec" ->
                                   <<"n", "r", "s">>
              IN  /\ SubSeq(name, Len(name) - 4, Len(name))
                         = <<".", "f", "i", "t", "s">>
                  /\ DirName(DirName(path)) = FILESYSTEM_DIR
                  /\ \E k \in 1..(Len(name) - Len(code) + 1) :
                         SubSeq(name, k, k + Len(code) - 1) = code
----------------------------------------------------------------------------
(* Claims about get_image_info *)

\* The names of the FITS files of the filesystem tree that match a file root:
\* the entries of the directory named by the root's first seven characters
\* that begin with the root and end with .fits
MatchingFits(trees, file_root) ==
    LET n == IF Len(file_root) < 7 THEN Len(file_root) ELSE 7
        directory == SubSeq(file_root, 1, n)
        tree == trees.filesystem
    IN  IF directory \notin DOMAIN tree.entries THEN {}
        ELSE {tree.entries[directory][i] :
                 i \in {j \in 1..Len(tree.entries[directory]) :
                     LET name == tree.entries[directory][j]
                     IN  /\ Len(name) >= Len(file_root) + 5
                         /\ SubSeq(name, 1, Len(file_root)) = file_root
                         /\ SubSeq(name, Len(name) - 4, Len(name))
                                = <<".", "f", "i", "t", "s">>}}

\* Whether the '_integ0.jpg' preview of a FITS file is in the preview tree
PreviewIsThere(trees, name) ==
    LET directory == SubSeq(name, 1, 7)
        jpg == SubSeq(name, 1, Len(name) - 5) \o <<"_", "i", "n", "t", "e", "g", "0", ".", "j", "p", "g">>
        tree == trees.preview_images
    IN  /\ directory \in DOMAIN tree.entries
        /\ jpg \in {tree.entries[directory][i] :
                       i \in 1..Len(tree.entries[directory])}

\* The FITS files (by name) the last call did `fn` for
DoneFor(fn) ==
    {BaseName(trace[i].file) : i \in {j \in 1..Len(trace) : trace[j].fn = fn}}

C12_GeneratedIffNeeded ==
    Called("get_image_info") =>
        LET matching == MatchingFits(call.entry.files, call.args.file_root)
        IN  /\ DoneFor("make_image") \subseteq matching
            /\ \A name \in matching :
                  LET existed == PreviewIsThere(call.entry.files, name)
                  IN  /\ name \in DoneFor("make_image")
                          <=> (~existed \/ call.args.rewrite)
                      /\ (existed /\ ~call.args.rewrite) =>
                            /\ name \notin DoneFor("make_image")
                            /\ name \notin DoneFor("os.makedirs")

C12_SecondCallGeneratesNothing ==
    (/\ Called("get_image_info")
     /\ call.entry.writes
     /\ call'.name = "get_image_info"
     /\ call'.args.file_root = call.args.file_root
     /\ ~call'.args.rewrite)
        => trace' = <<>>

\* C12: get_image_info generates the preview of a matching FITS file if and
\* only if the file's '_integ0.jpg' preview does not exist yet or rewrite is
\* True; for a file whose preview exists, with rewrite False, no image is
\* made and no directory is created.  And when generating writes the
\* '_integ0.jpg' file, a second call for the same file root with rewrite
\* False, on the filesystem as the first call left it, generates nothing.
C12_PreviewOnlyIfNeeded ==
    []C12_GeneratedIffNeeded /\ [][C12_SecondCallGeneratesNothing]_vars

\* C12's case: one call, rewrite False, for four files: two have a preview
\* and get none, two have none and get one
C12_Witness ==
    /\ Returned("get_image_info")
    /\ call.args.file_root = JW00886
    /\ ~call.args.rewrite
    /\ call.entry.files = Trees
    /\ DoneFor("make_image") = {NRCA1_RATE_2, MIRIMAGE_RATE}
    /\ PreviewIsThere(files, MIRIMAGE_RATE)
----------------------------------------------------------------------------
(* Claims about thumbnails and thumbnails_ajax *)

\* The files of the last call's instrument and proposal whose name the
\* parser rejects
NoncompliantFiles ==
    LET filepaths == FilenamesByInstrument(files, call.args.inst)
    IN  {filepaths[i] :
            i \in {j \in 1..Len(filepaths) :
                /\ filename_parser(filepaths[j]).kind = "raise"
                /\ call.args.proposal # None =>
                      Slice(FileId(filepaths[j]), 2, 7)
                          = Format05d(IntOf(call.args.proposal))}}

\* C13: thumbnails does not fail for a file whose name filename_parser
\* rejects with ValueError: it returns, with characters 2..6 of the file id
\* as the program_id and the characters from position 26 on as the detector
\* among the dropdown menus.
C13_NoncompliantFallback ==
    (Called("thumbnails") /\ NoncompliantFiles # {}) =>
        /\ ret.kind = "return"
        /\ \A f \in NoncompliantFiles :
              LET file_id == FileId(f)
                  detector == SubSeq(file_id, 27, Len(file_id))
                  menus == ret.value.dropdown_menus
              IN  /\ detector[1] # "f" =>
                         \E k \in 1..Len(menus.detector) :
                             menus.detector[k] = detector
                  /\ call.args.proposal = None =>
                         \E k \in 1..Len(menus.proposal) :
                             menus.proposal[k] = SubSeq(file_id, 3, 7)

\* The unique rootnames of the files of the last call's instrument, of its
\* proposal when one is given
RootnamesOfCall ==
    LET filepaths == FilenamesByInstrument(files, call.args.inst)
    IN  {r \in {FileId(filepaths[i]) : i \in 1..Len(filepaths)} :
            call.args.proposal # None =>
                Slice(r, 2, 7) = Format05d(IntOf(call.args.proposal))}

\* C14: a rootname that filename_parser rejects with ValueError does not make
\* thumbnails_ajax fail: the call returns, and file_data has an entry for
\* every unique rootname, with the fields filename_dict, available_files,
\* expstart and suffixes, the filename_dict of a rejected rootname being
\* built from fixed positions of the rootname.
C14_NoncompliantRootnameServed ==
    (/\ Called("thumbnails_ajax")
     /\ \E r \in RootnamesOfCall : filename_parser(r).kind = "raise") =>
        /\ ret.kind = "return"
        /\ DOMAIN ret.value.file_data = RootnamesOfCall
        /\ \A r \in RootnamesOfCall :
              /\ DOMAIN ret.value.file_data[r]
                     = {"filename_dict", "available_files", "expstart",
                        "suffixes"}
              /\ filename_parser(r).kind = "raise" =>
                     /\ ret.value.file_data[r].filename_dict.program_id
                            = SubSeq(r, 3, 7)
                     /\ ret.value.file_data[r].filename_dict.detector
                            = SubSeq(r, 27, Len(r))

\* What C15 says of a returned dictionary
MenusAsProposalGiven(dict, proposal) ==
    /\ "detector" \in DOMAIN dict.dropdown_menus
    /\ "proposal" \in DOMAIN dict.dropdown_menus <=> proposal = None

\* C15: thumbnails and thumbnails_ajax both return dropdown menus that
\* always have the key 'detector', and have the key 'proposal' if and only
\* if the proposal argument is None.
C15_ProposalMenuOnlyIfNotGiven ==
    (Called("thumbnails") \/ Called("thumbnails_ajax")) =>
        /\ ret.kind = "return"
        /\ MenusAsProposalGiven(ret.value, call.args.proposal)

\* The part of C15 that holds: of what thumbnails_ajax returns
C15_AjaxMenus ==
    Returned("thumbnails_ajax") =>
        MenusAsProposalGiven(ret.value, call.args.proposal)

----------------------------------------------------------------------------
(* Claims about mnemonic queries processed at the same time *)

\* C16, as the claim has it: under every interleaving of the write and
\* return steps of two queries, the file a response names for download
\* holds, when the response is returned, the table of that response's query.
C16_ResponseFileIsOwnTable ==
    [][\A r \in RequestIds :
          (requests[r].pc = "written" /\ requests'[r].pc = "returned") =>
              static'[requests'[r].file_for_download]
                  = requests'[r].result_table]_vars

\* C16, amended: the file a response names for download holds the table of
\* that response's query as long as no other query has written the file
\* since this query wrote it.
C16_OwnTableIfNoOtherWrite ==
    \A r \in RequestIds :
        (requests[r].pc = "returned" /\ requests[r].alone) =>
            static[requests[r].file_for_download] = requests[r].result_table

\* C16's case: two queries for different tables in flight together; the
\* second wrote the file before the first did and has not returned yet, the
\* first has returned
C16_Witness ==
    /\ requests[1].pc = "returned"
    /\ requests[1].alone
    /\ requests[2].pc = "written"
    /\ requests[2].result_table # requests[1].result_table
    /\ static[QueryDownloadFile] = requests[1].result_table

====
